---------------------------- MODULE Spec2Model ----------------------------
(***************************************************************************)
(* A model of the LLM web-interface scrapers of LLMs-and-Web:              *)
(*   - LLM_search_automation/Claude/index.js  (target "claude")            *)
(*   - the ChatGPT batch runner, unnamed/part_001  (target "gpt")          *)
(* Three groups of state:                                                  *)
(*   the Completion Detector (waitForClaudeStability /                     *)
(*   waitForResponseStability), the HAR/SSE Correlator (the "Inject SSE    *)
(*   into HAR" block) and the batch runner with its main flow.             *)
(* Time is counted in ticks of one second (the detector's pollInterval).   *)
(***************************************************************************)
EXTENDS Integers, Sequences, FiniteSets, TLC

VARIABLES
    \* ---- batch runner and main flow (Spec)
    target,      \* which program runs: "claude" or "gpt"
    pc,          \* where the main flow / processPromptsBatch is
    idx,         \* 1-based index of the prompt in the loop (0: before it)
    browser,     \* "none", "open", "closed", "closeFailed"
    scopes,      \* prompts whose HAR capture is open
    attempts,    \* times the try block was entered for prompt idx
    sseWait,     \* sseResponsePromise: "none", "pending", "resolved", "rejected"
    orphan,      \* prompt whose sseResponsePromise was left pending (0: none)
    sseText,     \* let sseText
    finalAnswer, \* let finalAnswer
    elapsed,     \* ticks since the prompt was submitted
    det,         \* the detector call of prompt idx: how it ended, when it began
    captured,    \* the trace har.stop() wrote for prompt idx
    harFile,     \* the HAR files on disk, by prompt
    respFile,    \* the response files on disk, by prompt
    log,         \* console messages of prompt idx: [step, level]
    hung,        \* the page never shows the composer
    failure,     \* what the catch block of prompt idx caught
    started,     \* prompts the loop has begun
    escaped,     \* the step whose exception left processPromptsBatch
    modeSince,   \* the mode-enabling step ran since the page was opened or reset
    freshChat,   \* no prompt was submitted since the conversation was opened
    \* ---- Completion Detector, run on its own (SpecDet)
    dTarget,     \* which program's detector: "claude" or "gpt"
    dSrc,        \* what the successive reads of the rendered text return
    dSlow,       \* the poll whose page read takes one tick (0: none)
    dFailAt,     \* the poll whose page read fails (0: none)
    dStab,       \* argument stabilityMs, in ticks
    dMax,        \* argument maxTimeout, in ticks
    dLoop,       \* the loop's now, last, stableSince and read count
    dOut,        \* NoResult, or what the call returned
    \* ---- Correlator, run on its own (SpecCorr)
    cCaptured,   \* the trace file as the capture wrote it
    cHar,        \* the trace file on disk
    cSse,        \* sseText
    cPc,         \* "idle", "inject", "done", "failed"
    \* ---- catalog loading of the main flow, run on its own (SpecCat)
    kJobs,       \* csvJobs: the CSV source of each job
    kAt,         \* jobs csvJobs.map has gone through
    kDirs,       \* jobs whose output directory exists
    kCatalogs,   \* jobs whose catalog files are written
    kPc,         \* "idle", "load", "save", "launched", "error"
    \* ---- Offline Reconstructor, run on its own (SpecRec)
    rTrace,      \* the event records of the archived streaming entry
    rArtifact,   \* the body of the saved response artifact
    rText,       \* the text the last reconstruction produced
    rRuns,       \* reconstructions run so far
    \* ---- safeClick of the ChatGPT runner, run on its own (SpecClick)
    sAttempts,   \* options.attempts
    sI,          \* the loop counter i
    sPc,         \* "idle", "loop", "returned", "threw"
    sLog,        \* what each wait-and-click attempt ended in, in order
    sSlept,      \* milliseconds slept in backoffs
    sErr,        \* the error message safeClick threw
    \* ---- the chat-deletion loop of delete_chats.js, run on its own (SpecDel)
    lChats,      \* chat rows in the sidebar
    lPc,         \* "idle", "loop", "retry", "done", "closed"
    lIter,       \* iterations of while (true) begun
    lReports,    \* 'Deleted one chat' messages written
    lRemoved,    \* chats deleted
    lSkips       \* 'Skipping one' warnings written

detVars  == <<dTarget, dSrc, dSlow, dFailAt, dStab, dMax, dLoop, dOut>>
corrVars == <<cCaptured, cHar, cSse, cPc>>
runVars  == <<target, pc, idx, browser, scopes, attempts, sseWait, orphan,
              sseText, finalAnswer, elapsed, det, captured, harFile, respFile,
              log, hung, failure, started, escaped, modeSince, freshChat>>
catVars  == <<kJobs, kAt, kDirs, kCatalogs, kPc>>
recVars  == <<rTrace, rArtifact, rText, rRuns>>
clickVars == <<sAttempts, sI, sPc, sLog, sSlept, sErr>>
delVars  == <<lChats, lPc, lIter, lReports, lRemoved, lSkips>>
vars     == <<runVars, detVars, corrVars, catVars, recVars, clickVars, delVars>>

-----------------------------------------------------------------------------
(* Bounds of the model *)

\* longest list of distinct successive reads a text source is given
MaxReads == 4
\* maxTimeout, in ticks, of a detector call checked on its own
DetTimeout == 6
\* most entries of a trace the correlator is checked on
MaxEntries == 3
\* most characters of a captured stream text
MaxSseChars == 2

\* jobs configured in csvJobs, at most
MaxJobs == 2

\* data rows of a CSV source, at most
MaxRows == 1

\* prompts in the catalog
NPrompts == 2
\* most ticks a streaming response takes to complete
MaxStream == 1
\* most reads over which the page's text is given before it holds or churns
MaxRender == 1

(* Program constants, in ticks of one second *)

\* page.waitForResponse(..., { timeout: 120000 })
sseTimeout == 120

\* pollInterval: 1000
pollInterval == 1
\* stabilityMs: 3000
stabilityMs == 3
\* maxTimeout: 60000
maxTimeout == 60

Targets == {"claude", "gpt"}

\* rendered answer texts: nothing rendered yet, or one of two texts
Texts == {"", "a", "b"}

Max(x, y) == IF x >= y THEN x ELSE y

-----------------------------------------------------------------------------
(* Completion Detector *)

\* the reads a,a,a,b,b,b of the stability-policy example
StabilityPattern == <<"a", "a", "a", "b", "b", "b">>

SeqsUpTo(S, n) == UNION {[1..k -> S] : k \in 0..n}

\* A text source: the texts of its first reads, and what follows them:
\* "hold" (the last text stays) or "churn" (the text changes on every read,
\* an answer that keeps streaming).
Source(prefix, tail) == [prefix |-> prefix, tail |-> tail]

\* the text the page shows at the i-th read (i >= 1)
PageTextAt(src, i) ==
    IF i <= Len(src.prefix) THEN src.prefix[i]
    ELSE IF src.tail = "churn" THEN (IF i % 2 = 1 THEN "a" ELSE "b")
    ELSE IF Len(src.prefix) = 0 THEN ""
    ELSE src.prefix[Len(src.prefix)]

\* claude.readVisibleText: page.evaluate(...).catch(() => ''), so a failed
\* page read is the empty text; the ChatGPT runner's page.$$eval throws.
\* The result is the text read, or ReadThrows.
ReadThrows == "<throws>"

readVisibleText(site, src, failAt, i) ==
    IF i = failAt
    THEN (IF site = "claude" THEN "" ELSE ReadThrows)
    ELSE PageTextAt(src, i)

\* the time the i-th page read takes
ReadLatency(slow, i) == IF i = slow THEN 1 ELSE 0

\* a faulty variant: the window is not restarted when the text changes
PollBranchNoRestart(current, last, stableSince, now, stabMs) ==
    IF current = last
    THEN [ret |-> now - stableSince >= stabMs, last |-> last, stableSince |-> stableSince]
    ELSE [ret |-> now - stableSince >= stabMs, last |-> current, stableSince |-> stableSince]

\* a faulty variant: the window must be exceeded, not reached
PollBranchStrict(current, last, stableSince, now, stabMs) ==
    IF current = last
    THEN [ret |-> now - stableSince > stabMs, last |-> last, stableSince |-> stableSince]
    ELSE [ret |-> FALSE, last |-> current, stableSince |-> now]

\* a faulty variant: an empty read is noise, the snapshot and the window stay
PollBranchEmptyIsNoise(current, last, stableSince, now, stabMs) ==
    IF current = last \/ current = ""
    THEN [ret |-> current = last /\ now - stableSince >= stabMs,
          last |-> last, stableSince |-> stableSince]
    ELSE [ret |-> FALSE, last |-> current, stableSince |-> now]

\* The body of the polling loop after the read: whether the loop returns
\* `current`, and the new last / stableSince.
PollBranch(current, last, stableSince, now, stabMs) ==
    IF current = last
    THEN [ret |-> now - stableSince >= stabMs, last |-> last, stableSince |-> stableSince]
    ELSE [ret |-> FALSE, last |-> current, stableSince |-> now]

\* start = Date.now(); last = ''; stableSince = Date.now(): the loop's state
\* before its first iteration (time 0 is `start`; i counts the reads)
LoopStart == [now |-> 0, last |-> "", stableSince |-> 0, i |-> 1]

\* dOut: how the call stands ("none": not called, "polling", or how it ended:
\* "stable", "timeout", "throw"), the text returned, when, and every read so
\* far: when it completed, what it returned, last / stableSince after it
NoResult == [via |-> "none", text |-> "", at |-> 0, polls |-> <<>>]
Polling  == [via |-> "polling", text |-> "", at |-> 0, polls |-> <<>>]

\* the text sources a detector call is checked on
DetSources ==
    {Source(p, "hold") : p \in SeqsUpTo(Texts, MaxReads) \cup {StabilityPattern}}

\* no file
Missing == [missing |-> TRUE]
Exists(file) == "missing" \notin DOMAIN file

NoDet == [via |-> "none", startedAt |-> 0, text |-> ""]

\* the state of a run at a given place of the main flow
RunAt(t, place) ==
    /\ target = t
    /\ pc = place
    /\ idx = 0
    /\ browser = "none"
    /\ scopes = {}
    /\ attempts = 0
    /\ sseWait = "none"
    /\ orphan = 0
    /\ sseText = <<>>
    /\ finalAnswer = ""
    /\ elapsed = 0
    /\ det = NoDet
    /\ captured = Missing
    /\ harFile = [i \in 1..NPrompts |-> Missing]
    /\ respFile = [i \in 1..NPrompts |-> Missing]
    /\ log = {}
    /\ hung = FALSE
    /\ failure = "none"
    /\ started = {}
    /\ escaped = "none"
    /\ modeSince = FALSE
    /\ freshChat = FALSE

InitRunIdle == RunAt("claude", "idle")

\* the catalog loading and the reconstructor when they are not the subject
InitCatIdle ==
    /\ kJobs = <<>>
    /\ kAt = 0
    /\ kDirs = {}
    /\ kCatalogs = {}
    /\ kPc = "idle"

InitRecIdle ==
    /\ rTrace = <<>>
    /\ rArtifact = ""
    /\ rText = ""
    /\ rRuns = 0

InitClickIdle ==
    /\ sAttempts = 0
    /\ sI = 0
    /\ sPc = "idle"
    /\ sLog = <<>>
    /\ sSlept = 0
    /\ sErr = ""

InitDelIdle ==
    /\ lChats = 0
    /\ lPc = "idle"
    /\ lIter = 0
    /\ lReports = 0
    /\ lRemoved = 0
    /\ lSkips = 0

InitCorrIdle ==
    /\ cCaptured = [entries |-> <<>>, indent |-> 0]
    /\ cHar = [entries |-> <<>>, indent |-> 0]
    /\ cSse = <<>>
    /\ cPc = "idle"

InitDetIdle ==
    /\ dTarget = "claude"
    /\ dSrc = Source(<<>>, "hold")
    /\ dSlow = 0
    /\ dFailAt = 0
    /\ dStab = stabilityMs
    /\ dMax = maxTimeout
    /\ dLoop = LoopStart
    /\ dOut = NoResult

InitDet ==
    /\ dTarget \in Targets
    /\ dSrc \in DetSources
    /\ dSlow \in 0..MaxReads
    /\ dFailAt \in 0..MaxReads
    /\ dStab \in {2, stabilityMs}
    /\ dMax = DetTimeout
    /\ dLoop = LoopStart
    /\ dOut = Polling
    /\ InitCorrIdle
    /\ InitRunIdle
    /\ InitCatIdle
    /\ InitRecIdle
    /\ InitClickIdle
    /\ InitDelIdle

\* one iteration of while (Date.now() - start < maxTimeout): the read, the
\* comparison with last, and sleep(pollInterval) when the loop goes on
DetPoll ==
    /\ dOut.via = "polling"
    /\ dLoop.now < dMax
    /\ LET t       == dLoop.now + ReadLatency(dSlow, dLoop.i)
           current == readVisibleText(dTarget, dSrc, dFailAt, dLoop.i)
           b       == PollBranch(current, dLoop.last, dLoop.stableSince, t, dStab)
           ps      == Append(dOut.polls, [t |-> t, cur |-> current,
                                          last |-> b.last, since |-> b.stableSince])
       IN  IF current = ReadThrows
           THEN /\ dOut' = [dOut EXCEPT !.via = "throw", !.at = t]
                /\ dLoop' = dLoop
           ELSE IF b.ret
           THEN /\ dOut' = [via |-> "stable", text |-> current, at |-> t, polls |-> ps]
                /\ dLoop' = [dLoop EXCEPT !.now = t]
           ELSE /\ dOut' = [dOut EXCEPT !.polls = ps]
                /\ dLoop' = [now |-> t + pollInterval, last |-> b.last,
                             stableSince |-> b.stableSince, i |-> dLoop.i + 1]
    /\ UNCHANGED <<dTarget, dSrc, dSlow, dFailAt, dStab, dMax, corrVars, runVars, catVars, recVars, clickVars, delVars>>

\* the while condition fails: return last
DetTimesOut ==
    /\ dOut.via = "polling"
    /\ ~(dLoop.now < dMax)
    /\ dOut' = [dOut EXCEPT !.via = "timeout", !.text = dLoop.last, !.at = dLoop.now]
    /\ UNCHANGED <<dTarget, dSrc, dSlow, dFailAt, dStab, dMax, dLoop, corrVars, runVars, catVars, recVars, clickVars, delVars>>

NextDet == DetPoll \/ DetTimesOut

SpecDet == InitDet /\ [][NextDet]_vars

-----------------------------------------------------------------------------
(* HAR/SSE Correlator *)

\* Strings whose bytes matter are sequences of UTF-16 code units.
IsHighSurrogate(u) == u >= 55296 /\ u <= 56319
IsLowSurrogate(u)  == u >= 56320 /\ u <= 57343

\* Buffer.byteLength(s, 'utf8') from the i-th code unit on: 1, 2 or 3 bytes
\* for a unit of the basic plane, 4 for a surrogate pair, 3 (U+FFFD) for a
\* surrogate on its own.
RECURSIVE ByteLengthFrom(_, _)
ByteLengthFrom(s, i) ==
    IF i > Len(s) THEN 0
    ELSE IF s[i] < 128 THEN 1 + ByteLengthFrom(s, i + 1)
    ELSE IF s[i] < 2048 THEN 2 + ByteLengthFrom(s, i + 1)
    ELSE IF IsHighSurrogate(s[i]) /\ i < Len(s) /\ IsLowSurrogate(s[i + 1])
         THEN 4 + ByteLengthFrom(s, i + 2)
    ELSE 3 + ByteLengthFrom(s, i + 1)

BufferByteLength(s) == ByteLengthFrom(s, 1)

EventStream == "text/event-stream"

\* entry.response?.content?.mimeType === 'text/event-stream'
IsStreamingEntry(entry) == entry.mimeType = EventStream

\* for (const entry of harJson.log.entries) { if (...) { ...; break; } }
\* from the i-th entry on
RECURSIVE InjectFrom(_, _, _)
InjectFrom(entries, i, sse) ==
    IF i > Len(entries) THEN entries
    ELSE IF IsStreamingEntry(entries[i])
         THEN [entries EXCEPT ![i].text = sse, ![i].size = BufferByteLength(sse)]
    ELSE InjectFrom(entries, i + 1, sse)

\* a faulty variant: the size is the string's length, not its UTF-8 byte length
InjectSSEStringLength(entries, sse) ==
    LET hits == {i \in 1..Len(entries) : IsStreamingEntry(entries[i])}
    IN  IF hits = {} THEN entries
        ELSE LET k == CHOOSE i \in hits : \A j \in hits : i <= j
             IN  [entries EXCEPT ![k].text = sse, ![k].size = Len(sse)]

\* a faulty variant: the loop has no break, every streaming entry is rewritten
InjectSSEEvery(entries, sse) ==
    [i \in 1..Len(entries) |->
        IF IsStreamingEntry(entries[i])
        THEN [entries[i] EXCEPT !.text = sse, !.size = BufferByteLength(sse)]
        ELSE entries[i]]

\* the loop over harJson.log.entries
InjectSSE(entries, sse) == InjectFrom(entries, 1, sse)

\* A trace file: its entries and the indentation of its JSON text.
\* puppeteer-har writes JSON.stringify(har); the correlator reads the file,
\* JSON.parse, and writes JSON.stringify(harJson, null, 2).
HarFile(entries, indent) == [entries |-> entries, indent |-> indent]

RewriteHar(file, sse) == HarFile(InjectSSE(file.entries, sse), 2)

\* the characters stream text is made of: a, e-acute, the euro sign and an
\* emoji (a surrogate pair); response.text() decodes UTF-8, so the text has
\* no surrogate on its own
SseChars == {<<97>>, <<233>>, <<8364>>, <<55357, 56832>>}

RECURSIVE Flatten(_)
Flatten(ss) == IF ss = <<>> THEN <<>> ELSE Head(ss) \o Flatten(Tail(ss))

SseTexts == {Flatten(cs) : cs \in SeqsUpTo(SseChars, MaxSseChars)}

\* Content types, as the parts they are made of: String.includes is modelled
\* on the parts, and the needle 'event-stream' is one part of a content type
\* or absent from it.
ContentTypeParts ==
    { <<"text/", "event-stream">>,
      <<"application/", "json">>,
      <<"text/", "event-stream", "; charset=utf-8">>,
      <<"application/x-", "event-stream">> }

RECURSIVE JoinParts(_)
JoinParts(ps) == IF ps = <<>> THEN "" ELSE Head(ps) \o JoinParts(Tail(ps))

MimeTypes == {EventStream, "application/json", "text/event-stream; charset=utf-8",
              "application/x-event-stream"}

\* the parts of a content type; of '' (no content-type header), none
PartsOf(ct) == CHOOSE ps \in ContentTypeParts \cup {<<>>} : JoinParts(ps) = ct

\* String.prototype.includes
includes(ps, needle) == \E i \in DOMAIN ps : ps[i] = needle

\* claude.isSSE: ct = response.headers()['content-type'] || '';
\* ct.includes('event-stream')
isSSE(ct) == includes(PartsOf(ct), "event-stream")


\* the entries of a captured trace: a body the generic capture kept (x) or
\* did not keep, with the size of that body
CapturedEntries ==
    {[mimeType |-> m, text |-> t, size |-> BufferByteLength(t)] :
        m \in MimeTypes, t \in {<<>>, <<120>>}}

InitCorr ==
    /\ cCaptured \in {HarFile(es, 0) : es \in SeqsUpTo(CapturedEntries, MaxEntries)}
    /\ cHar = cCaptured
    /\ cSse \in SseTexts
    /\ cPc = "inject"
    /\ InitDetIdle
    /\ InitRunIdle
    /\ InitCatIdle
    /\ InitRecIdle
    /\ InitClickIdle
    /\ InitDelIdle

\* the "Inject SSE into HAR" block, the file read and written
CorrInject ==
    /\ cPc = "inject"
    /\ cHar' = RewriteHar(cHar, cSse)
    /\ cPc' = "done"
    /\ UNCHANGED <<cCaptured, cSse, detVars, runVars, catVars, recVars, clickVars, delVars>>

\* fs.writeFileSync throws: the catch logs, the file is as it was
CorrWriteFails ==
    /\ cPc = "inject"
    /\ cPc' = "failed"
    /\ UNCHANGED <<cCaptured, cHar, cSse, detVars, runVars, catVars, recVars, clickVars, delVars>>

NextCorr == CorrInject \/ CorrWriteFails

SpecCorr == InitCorr /\ [][NextCorr]_vars

-----------------------------------------------------------------------------
(* Batch runner: the main flow and processPromptsBatch *)

Placeholder == "[no answer captured]"

\* a console message: the step that wrote it and its level
Msg(step, level) == [step |-> step, level |-> level]

\* promptText: the Claude runner prefixes the query
PromptText(site, i) == [prefixed |-> site = "claude", query |-> i]

\* a faulty variant: the placeholder test is inverted
ResponseFileInverted(site, i, answer) ==
    [prompt |-> PromptText(site, i),
     body   |-> IF answer # "" THEN Placeholder ELSE answer]

\* header + (finalAnswer || '[no answer captured]')
ResponseFile(site, i, answer) ==
    [prompt |-> PromptText(site, i),
     body   |-> IF answer = "" THEN Placeholder ELSE answer]

\* entries of the traces har.stop() writes in a batch run
JsonEntry      == [mimeType |-> "application/json", text |-> <<120>>, size |-> 1]
StreamEntryCut == [mimeType |-> EventStream, text |-> <<120>>, size |-> 1]

BatchTraces == {<<JsonEntry>>, <<StreamEntryCut, JsonEntry>>}

\* stream texts sseResponse.text() returns in a batch run
BatchSseTexts == {<<97>>}

\* how the page's text behaves while the detector polls in a batch run
BatchSources ==
    {Source(p, "hold") : p \in SeqsUpTo({"", "a"}, MaxRender)} \cup {Source(<<>>, "churn")}

\* the places of the loop body, from har.start to the session reset
PromptPlaces ==
    {"harStart", "enable", "register", "submit", "awaitSSE", "stability",
     "harStop", "inject", "saveAnswer", "reset", "fallbackGoto", "fallbackWait"}

\* the places inside the try block
TryPlaces == {"enable", "register", "submit", "awaitSSE", "stability"}

Init ==
    /\ \E t \in Targets : RunAt(t, "loadCatalog")
    /\ InitDetIdle
    /\ InitCorrIdle
    /\ InitCatIdle
    /\ InitRecIdle
    /\ InitClickIdle
    /\ InitDelIdle

\* csvJobs.map: loadCsvPrompts and savePromptsCatalog succeed
LoadCatalogOk ==
    /\ pc = "loadCatalog"
    /\ pc' = "launch"
    /\ UNCHANGED <<target, idx, browser, scopes, attempts, sseWait, orphan, sseText, finalAnswer, elapsed, det, captured, harFile, respFile, log, hung, failure, started, escaped, modeSince, freshChat, detVars, corrVars, catVars, recVars, clickVars, delVars>>

\* loadCsvPrompts throws (missing file, no 'query' column): nothing catches it
LoadCatalogFails ==
    /\ pc = "loadCatalog"
    /\ pc' = "catalogError"
    /\ UNCHANGED <<target, idx, browser, scopes, attempts, sseWait, orphan, sseText, finalAnswer, elapsed, det, captured, harFile, respFile, log, hung, failure, started, escaped, modeSince, freshChat, detVars, corrVars, catVars, recVars, clickVars, delVars>>

\* puppeteer.launch
Launch ==
    /\ pc = "launch"
    /\ browser' = "open"
    /\ pc' = "batchInit"
    /\ UNCHANGED <<target, idx, scopes, attempts, sseWait, orphan, sseText, finalAnswer, elapsed, det, captured, harFile, respFile, log, hung, failure, started, escaped, modeSince, freshChat, detVars, corrVars, catVars, recVars, clickVars, delVars>>

\* the variables declared in the loop body (let finalAnswer, let sseText,
\* const har, const sseResponsePromise) and the console of the prompt
promptVars ==
    <<attempts, sseWait, sseText, finalAnswer, elapsed, det, captured, log, failure>>

\* the loop body is left: its variables are gone
BodyLeft ==
    /\ attempts' = 0
    /\ sseWait' = "none"
    /\ sseText' = <<>>
    /\ finalAnswer' = ""
    /\ elapsed' = 0
    /\ det' = NoDet
    /\ captured' = Missing
    /\ log' = {}
    /\ failure' = "none"

\* an exception leaves processPromptsBatch: the main flow's catch is next
Escapes(step) ==
    /\ pc' = "mainCatch"
    /\ escaped' = step
    /\ BodyLeft

\* processPromptsBatch: ensureDir, setUserAgent, page.goto, sleep(10000)
GotoOk ==
    /\ pc = "batchInit"
    /\ modeSince' = FALSE
    /\ pc' = "initWait"
    /\ freshChat' = TRUE
    /\ UNCHANGED <<target, idx, browser, scopes, attempts, sseWait, orphan, sseText, finalAnswer, elapsed, det, captured, harFile, respFile, log, hung, failure, started, escaped, detVars, corrVars, catVars, recVars, clickVars, delVars>>

\* page.goto throws
GotoFails ==
    /\ pc = "batchInit"
    /\ Escapes("goto")
    /\ UNCHANGED <<target, idx, browser, scopes, orphan, harFile, respFile, hung, started, modeSince, freshChat, detVars, corrVars, catVars, recVars, clickVars, delVars>>

\* the page stops rendering: the composer will not appear
PageHangs ==
    /\ pc \in {"initWait", "fallbackWait"}
    /\ ~hung
    /\ hung' = TRUE
    /\ UNCHANGED <<target, pc, idx, browser, scopes, attempts, sseWait, orphan, sseText, finalAnswer, elapsed, det, captured, harFile, respFile, log, failure, started, escaped, modeSince, freshChat, detVars, corrVars, catVars, recVars, clickVars, delVars>>

\* page.waitForSelector(editor, { timeout: 0 }) resolves
InitComposerAppears ==
    /\ pc = "initWait"
    /\ ~hung
    /\ pc' = IF target = "claude" THEN "initSelectModel" ELSE "loopHead"
    /\ UNCHANGED <<target, idx, browser, scopes, attempts, sseWait, orphan, sseText, finalAnswer, elapsed, det, captured, harFile, respFile, log, hung, failure, started, escaped, modeSince, freshChat, detVars, corrVars, catVars, recVars, clickVars, delVars>>

\* a faulty variant: the model is not selected again after the fallback reload
SelectModelNotAfterReload(place) == place \in {"init", "newChat"}

\* the places where claude.selectModel(page, PREFERRED_MENU_LABEL) is called:
\* before the first prompt, after a new chat, after the fallback reload
SelectModelAt(place) == place \in {"init", "newChat", "fallback"}

\* claude.selectModel(page, PREFERRED_MENU_LABEL).catch(() => {})
InitSelectModel ==
    /\ pc = "initSelectModel"
    /\ modeSince' = SelectModelAt("init")
    /\ pc' = "loopHead"
    /\ UNCHANGED <<target, idx, browser, scopes, attempts, sseWait, orphan, sseText, finalAnswer, elapsed, det, captured, harFile, respFile, log, hung, failure, started, escaped, freshChat, detVars, corrVars, catVars, recVars, clickVars, delVars>>

\* for (let idx = 0; idx < prompts.length; idx++): the next prompt
LoopNext ==
    /\ pc = "loopHead"
    /\ idx < NPrompts
    /\ idx' = idx + 1
    /\ started' = started \cup {idx + 1}
    /\ pc' = "harStart"
    /\ attempts' = 0
    /\ sseWait' = "none"
    /\ sseText' = <<>>
    /\ finalAnswer' = ""
    /\ elapsed' = 0
    /\ det' = NoDet
    /\ captured' = Missing
    /\ log' = {}
    /\ failure' = "none"
    /\ UNCHANGED <<target, browser, scopes, orphan, harFile, respFile, hung, escaped, modeSince, freshChat, detVars, corrVars, catVars, recVars, clickVars, delVars>>

\* the loop ends: processPromptsBatch returns, the main flow's finally is next
LoopEnd ==
    /\ pc = "loopHead"
    /\ idx = NPrompts
    /\ pc' = "closeBrowser"
    /\ UNCHANGED <<target, idx, browser, scopes, attempts, sseWait, orphan, sseText, finalAnswer, elapsed, det, captured, harFile, respFile, log, hung, failure, started, escaped, modeSince, freshChat, detVars, corrVars, catVars, recVars, clickVars, delVars>>

\* await har.start({ path: harFilename, omitContent: false }), then the try block
HarStartOk ==
    /\ pc = "harStart"
    /\ scopes' = scopes \cup {idx}
    /\ attempts' = attempts + 1
    /\ pc' = "enable"
    /\ UNCHANGED <<target, idx, browser, sseWait, orphan, sseText, finalAnswer, elapsed, det, captured, harFile, respFile, log, hung, failure, started, escaped, modeSince, freshChat, detVars, corrVars, catVars, recVars, clickVars, delVars>>

\* har.start throws, outside the try block
HarStartFails ==
    /\ pc = "harStart"
    /\ Escapes("harStart")
    /\ UNCHANGED <<target, idx, browser, scopes, orphan, harFile, respFile, hung, started, modeSince, freshChat, detVars, corrVars, catVars, recVars, clickVars, delVars>>

\* a faulty variant: the catch block runs the try block a second time
OnPromptErrorRetry(kind) ==
    /\ failure' = kind
    /\ log' = log \cup {Msg("prompt", "error")}
    /\ IF attempts < 2
       THEN pc' = "enable" /\ attempts' = attempts + 1
       ELSE pc' = "harStop" /\ attempts' = attempts

\* a faulty variant: after the catch the finally block is passed over
OnPromptErrorSkipsFinally(kind) ==
    /\ failure' = kind
    /\ log' = log \cup {Msg("prompt", "error")}
    /\ pc' = "reset"
    /\ attempts' = attempts

\* catch (err) { console.error(`Error processing prompt ...`) }, then finally
OnPromptError(kind) ==
    /\ failure' = kind
    /\ log' = log \cup {Msg("prompt", "error")}
    /\ pc' = "harStop"
    /\ attempts' = attempts

\* claude.enableWeb: a no-op
EnableWeb ==
    /\ pc = "enable"
    /\ target = "claude"
    /\ pc' = "register"
    /\ UNCHANGED <<target, idx, browser, scopes, attempts, sseWait, orphan, sseText, finalAnswer, elapsed, det, captured, harFile, respFile, log, hung, failure, started, escaped, modeSince, freshChat, detVars, corrVars, catVars, recVars, clickVars, delVars>>

\* enableWebSearch(page) of the ChatGPT runner
EnableWebSearchOk ==
    /\ pc = "enable"
    /\ target = "gpt"
    /\ modeSince' = TRUE
    /\ pc' = "register"
    /\ UNCHANGED <<target, idx, browser, scopes, attempts, sseWait, orphan, sseText, finalAnswer, elapsed, det, captured, harFile, respFile, log, hung, failure, started, escaped, freshChat, detVars, corrVars, catVars, recVars, clickVars, delVars>>

\* enableWebSearch throws (safeClick failed, menu item not found)
EnableWebSearchFails ==
    /\ pc = "enable"
    /\ target = "gpt"
    /\ modeSince' = TRUE
    /\ OnPromptError("transient")
    /\ UNCHANGED <<target, idx, browser, scopes, sseWait, orphan, sseText, finalAnswer, elapsed, det, captured, harFile, respFile, hung, started, escaped, freshChat, detVars, corrVars, catVars, recVars, clickVars, delVars>>

\* a faulty variant: the prompt is submitted with no stream wait registered
RegisterSseNever ==
    /\ pc = "register"
    /\ sseWait' = sseWait
    /\ pc' = "submit"
    /\ UNCHANGED <<target, idx, browser, scopes, attempts, orphan, sseText, finalAnswer, elapsed, det, captured, harFile, respFile, log, hung, failure, started, escaped, modeSince, freshChat, detVars, corrVars, catVars, recVars, clickVars, delVars>>

\* const sseResponsePromise = page.waitForResponse(isSSE, { timeout: 120000 })
RegisterSse ==
    /\ pc = "register"
    /\ sseWait' = "pending"
    /\ pc' = "submit"
    /\ UNCHANGED <<target, idx, browser, scopes, attempts, orphan, sseText, finalAnswer, elapsed, det, captured, harFile, respFile, log, hung, failure, started, escaped, modeSince, freshChat, detVars, corrVars, catVars, recVars, clickVars, delVars>>

\* claude.submitPrompt / type and press Enter
SubmitOk ==
    /\ pc = "submit"
    /\ elapsed' = 0
    /\ pc' = "awaitSSE"
    /\ freshChat' = FALSE
    /\ UNCHANGED <<target, idx, browser, scopes, attempts, sseWait, orphan, sseText, finalAnswer, det, captured, harFile, respFile, log, hung, failure, started, escaped, modeSince, detVars, corrVars, catVars, recVars, clickVars, delVars>>

\* submission throws (editor not found, node detached): sseResponsePromise
\* is never awaited
SubmitFails ==
    /\ pc = "submit"
    /\ orphan' = idx
    /\ OnPromptError("transient")
    /\ UNCHANGED <<target, idx, browser, scopes, sseWait, sseText, finalAnswer, elapsed, det, captured, harFile, respFile, hung, started, escaped, modeSince, freshChat, detVars, corrVars, catVars, recVars, clickVars, delVars>>

\* sseResponse = await sseResponsePromise; sseText = await sseResponse.text()
SseResolved ==
    /\ pc = "awaitSSE"
    /\ \E s \in BatchSseTexts, d \in 1..MaxStream :
          /\ sseText' = s
          /\ elapsed' = elapsed + d
    /\ sseWait' = "resolved"
    /\ pc' = "stability"
    /\ UNCHANGED <<target, idx, browser, scopes, attempts, orphan, finalAnswer, det, captured, harFile, respFile, log, hung, failure, started, escaped, modeSince, freshChat, detVars, corrVars, catVars, recVars, clickVars, delVars>>

\* sseResponse.text() throws: the inner catch warns
SseTextFails ==
    /\ pc = "awaitSSE"
    /\ \E d \in 1..MaxStream : elapsed' = elapsed + d
    /\ sseWait' = "resolved"
    /\ log' = log \cup {Msg("sse", "warn")}
    /\ pc' = "stability"
    /\ UNCHANGED <<target, idx, browser, scopes, attempts, orphan, sseText, finalAnswer, det, captured, harFile, respFile, hung, failure, started, escaped, modeSince, freshChat, detVars, corrVars, catVars, recVars, clickVars, delVars>>

\* sseResponsePromise rejects after 120 s: the inner catch warns
SseTimesOut ==
    /\ pc = "awaitSSE"
    /\ elapsed' = elapsed + sseTimeout
    /\ sseWait' = "rejected"
    /\ log' = log \cup {Msg("sse", "warn")}
    /\ pc' = "stability"
    /\ UNCHANGED <<target, idx, browser, scopes, attempts, orphan, sseText, finalAnswer, det, captured, harFile, respFile, hung, failure, started, escaped, modeSince, freshChat, detVars, corrVars, catVars, recVars, clickVars, delVars>>

\* a faulty variant: the detector is started at submission, beside the stream wait
DetectorStartRaced(sinceSubmit) == 0

\* finalAnswer = await waitForClaudeStability(...) follows the awaited stream
\* wait: the call begins `sinceSubmit` ticks after the submission
DetectorStart(sinceSubmit) == sinceSubmit

\* waitForClaudeStability(page, { stabilityMs: 3000, maxTimeout: 60000,
\* pollInterval: 1000 }) is called: the page's text from here on is chosen
CallDetector ==
    /\ pc = "stability"
    /\ dOut.via = "none"
    /\ dTarget' = target
    /\ dSrc' \in BatchSources
    /\ dFailAt' \in (IF target = "gpt" THEN 0..1 ELSE {0})
    /\ dSlow' = 0
    /\ dStab' = stabilityMs
    /\ dMax' = maxTimeout
    /\ dLoop' = LoopStart
    /\ dOut' = Polling
    /\ det' = [via |-> "polling", startedAt |-> DetectorStart(elapsed), text |-> ""]
    /\ UNCHANGED <<target, pc, idx, browser, scopes, attempts, sseWait, orphan, sseText, finalAnswer, elapsed, captured, harFile, respFile, log, hung, failure, started, escaped, modeSince, freshChat, corrVars, catVars, recVars, clickVars, delVars>>

\* the detector's variables once its call is over
DetectorIdle ==
    /\ dTarget' = "claude"
    /\ dSrc' = Source(<<>>, "hold")
    /\ dSlow' = 0
    /\ dFailAt' = 0
    /\ dStab' = stabilityMs
    /\ dMax' = maxTimeout
    /\ dLoop' = LoopStart
    /\ dOut' = NoResult

\* finalAnswer = await waitForClaudeStability(...) returns; the message about
\* the answer; sleep(1000)
AwaitStability ==
    /\ pc = "stability"
    /\ dOut.via \in {"stable", "timeout"}
    /\ finalAnswer' = dOut.text
    /\ det' = [det EXCEPT !.via = dOut.via, !.text = dOut.text]
    /\ log' = log \cup {Msg("answer", IF dOut.text = "" THEN "warn" ELSE "log")}
    /\ DetectorIdle
    /\ pc' = "harStop" 
    /\ UNCHANGED <<target, idx, browser, scopes, attempts, sseWait, orphan, sseText, elapsed, captured, harFile, respFile, hung, failure, started, escaped, modeSince, freshChat, corrVars, catVars, recVars, clickVars, delVars>>

\* the ChatGPT runner's page.$$eval throws inside waitForResponseStability
StabilityThrows ==
    /\ pc = "stability"
    /\ dOut.via = "throw"
    /\ det' = [det EXCEPT !.via = "throw"]
    /\ DetectorIdle
    /\ OnPromptError("read")
    /\ UNCHANGED <<target, idx, browser, scopes, sseWait, orphan, sseText, finalAnswer, elapsed, captured, harFile, respFile, hung, started, escaped, modeSince, freshChat, corrVars, catVars, recVars, clickVars, delVars>>

\* a faulty variant: a failed stop leaves the files of the prompt alone but is not logged
HarStopFailureSilent(closed) ==
    /\ scopes' = IF closed THEN scopes \ {idx} ELSE scopes
    /\ log' = log

\* har.stop() throws: the catch warns; the capture may or may not have been
\* detached before the failure
HarStopFailure(closed) ==
    /\ scopes' = IF closed THEN scopes \ {idx} ELSE scopes
    /\ log' = log \cup {Msg("harStop", "warn")}

\* finally: await har.stop() writes the trace
HarStopOk ==
    /\ pc = "harStop"
    /\ scopes' = scopes \ {idx}
    /\ \E tr \in BatchTraces :
          /\ captured' = HarFile(tr, 0)
          /\ harFile' = [harFile EXCEPT ![idx] = HarFile(tr, 0)]
    /\ log' = log \cup {Msg("harStop", "log")}
    /\ pc' = "inject"
    /\ UNCHANGED <<target, idx, browser, attempts, sseWait, orphan, sseText, finalAnswer, elapsed, det, respFile, hung, failure, started, escaped, modeSince, freshChat, detVars, corrVars, catVars, recVars, clickVars, delVars>>

\* finally: har.stop() throws
HarStopFails ==
    /\ pc = "harStop"
    /\ \E closed \in BOOLEAN : HarStopFailure(closed)
    /\ pc' = "inject"
    /\ UNCHANGED <<target, idx, browser, attempts, sseWait, orphan, sseText, finalAnswer, elapsed, det, captured, harFile, respFile, hung, failure, started, escaped, modeSince, freshChat, detVars, corrVars, catVars, recVars, clickVars, delVars>>

\* Inject SSE into HAR: read, rewrite the first streaming entry, write
InjectOk ==
    /\ pc = "inject"
    /\ Exists(harFile[idx])
    /\ harFile' = [harFile EXCEPT ![idx] = RewriteHar(harFile[idx], sseText)]
    /\ log' = log \cup {Msg("inject", "log")}
    /\ pc' = "saveAnswer"
    /\ UNCHANGED <<target, idx, browser, scopes, attempts, sseWait, orphan, sseText, finalAnswer, elapsed, det, captured, respFile, hung, failure, started, escaped, modeSince, freshChat, detVars, corrVars, catVars, recVars, clickVars, delVars>>

\* Inject SSE into HAR: readFileSync throws, there is no trace file
InjectReadFails ==
    /\ pc = "inject"
    /\ ~Exists(harFile[idx])
    /\ log' = log \cup {Msg("inject", "error")}
    /\ pc' = "saveAnswer"
    /\ UNCHANGED <<target, idx, browser, scopes, attempts, sseWait, orphan, sseText, finalAnswer, elapsed, det, captured, harFile, respFile, hung, failure, started, escaped, modeSince, freshChat, detVars, corrVars, catVars, recVars, clickVars, delVars>>

\* Inject SSE into HAR: writeFileSync throws
InjectWriteFails ==
    /\ pc = "inject"
    /\ Exists(harFile[idx])
    /\ log' = log \cup {Msg("inject", "error")}
    /\ pc' = "saveAnswer"
    /\ UNCHANGED <<target, idx, browser, scopes, attempts, sseWait, orphan, sseText, finalAnswer, elapsed, det, captured, harFile, respFile, hung, failure, started, escaped, modeSince, freshChat, detVars, corrVars, catVars, recVars, clickVars, delVars>>

\* Save final answer: writeFileSync(answerFilename, header + ...)
SaveAnswerOk ==
    /\ pc = "saveAnswer"
    /\ respFile' = [respFile EXCEPT ![idx] = ResponseFile(target, idx, finalAnswer)]
    /\ log' = log \cup {Msg("save", "log")}
    /\ pc' = "reset"
    /\ UNCHANGED <<target, idx, browser, scopes, attempts, sseWait, orphan, sseText, finalAnswer, elapsed, det, captured, harFile, hung, failure, started, escaped, modeSince, freshChat, detVars, corrVars, catVars, recVars, clickVars, delVars>>

\* Save final answer: writeFileSync throws
SaveAnswerFails ==
    /\ pc = "saveAnswer"
    /\ log' = log \cup {Msg("save", "warn")}
    /\ pc' = "reset"
    /\ UNCHANGED <<target, idx, browser, scopes, attempts, sseWait, orphan, sseText, finalAnswer, elapsed, det, captured, harFile, respFile, hung, failure, started, escaped, modeSince, freshChat, detVars, corrVars, catVars, recVars, clickVars, delVars>>

\* claude.newChat: btn = await page.$(newChatButton); if (btn) await
\* btn.click(): whether the page is on a fresh conversation afterwards,
\* given whether the button was found
newChat(found, fresh) == found \/ fresh

\* claude.newChat, sleep(2000), waitForSelector(editor, 15000), selectModel
NewChatOk ==
    /\ pc = "reset"
    /\ target = "claude"
    /\ modeSince' = SelectModelAt("newChat")
    /\ BodyLeft
    /\ pc' = "loopHead"
    /\ \E found \in BOOLEAN : freshChat' = newChat(found, freshChat)
    /\ UNCHANGED <<target, idx, browser, scopes, orphan, harFile, respFile, hung, started, escaped, detVars, corrVars, catVars, recVars, clickVars, delVars>>

\* the click or the composer wait throws: the catch warns, the fallback reload is next
NewChatFails ==
    /\ pc = "reset"
    /\ target = "claude"
    /\ log' = log \cup {Msg("reset", "warn")}
    /\ modeSince' = FALSE
    /\ pc' = "fallbackGoto"
    /\ UNCHANGED <<target, idx, browser, scopes, attempts, sseWait, orphan, sseText, finalAnswer, elapsed, det, captured, harFile, respFile, hung, failure, started, escaped, freshChat, detVars, corrVars, catVars, recVars, clickVars, delVars>>

\* catch: page.goto('https://claude.ai/new'), sleep(5000)
FallbackGotoOk ==
    /\ pc = "fallbackGoto"
    /\ pc' = "fallbackWait"
    /\ freshChat' = TRUE
    /\ UNCHANGED <<target, idx, browser, scopes, attempts, sseWait, orphan, sseText, finalAnswer, elapsed, det, captured, harFile, respFile, log, hung, failure, started, escaped, modeSince, detVars, corrVars, catVars, recVars, clickVars, delVars>>

\* catch: page.goto throws, inside the catch block
FallbackGotoFails ==
    /\ pc = "fallbackGoto"
    /\ Escapes("fallbackGoto")
    /\ UNCHANGED <<target, idx, browser, scopes, orphan, harFile, respFile, hung, started, modeSince, freshChat, detVars, corrVars, catVars, recVars, clickVars, delVars>>

\* catch: waitForSelector(editor, { timeout: 0 }) resolves, selectModel
FallbackComposerAppears ==
    /\ pc = "fallbackWait"
    /\ ~hung
    /\ modeSince' = SelectModelAt("fallback")
    /\ BodyLeft
    /\ pc' = "loopHead"
    /\ UNCHANGED <<target, idx, browser, scopes, orphan, harFile, respFile, hung, started, escaped, freshChat, detVars, corrVars, catVars, recVars, clickVars, delVars>>

\* the ChatGPT runner: Ctrl+Shift+O, sleep(3000)
KeyboardNewChatOk ==
    /\ pc = "reset"
    /\ target = "gpt"
    /\ modeSince' = FALSE
    /\ BodyLeft
    /\ pc' = "loopHead"
    /\ freshChat' = TRUE
    /\ UNCHANGED <<target, idx, browser, scopes, orphan, harFile, respFile, hung, started, escaped, detVars, corrVars, catVars, recVars, clickVars, delVars>>

\* the ChatGPT runner: a key press throws, outside any try
KeyboardNewChatFails ==
    /\ pc = "reset"
    /\ target = "gpt"
    /\ Escapes("newChat")
    /\ UNCHANGED <<target, idx, browser, scopes, orphan, harFile, respFile, hung, started, modeSince, freshChat, detVars, corrVars, catVars, recVars, clickVars, delVars>>

\* a later prompt's streaming response settles the wait left pending
OrphanResolves ==
    /\ orphan # 0
    /\ idx > orphan
    /\ pc = "stability"
    /\ sseWait = "resolved"
    /\ orphan' = 0
    /\ UNCHANGED <<target, pc, idx, browser, scopes, attempts, sseWait, sseText, finalAnswer, elapsed, det, captured, harFile, respFile, log, hung, failure, started, escaped, modeSince, freshChat, detVars, corrVars, catVars, recVars, clickVars, delVars>>

\* the wait left pending rejects 120 s after it was made, during a later
\* prompt, and nothing handles the rejection: the process ends (the default
\* since Node 15; a runtime that only warns goes on as if nothing happened)
OrphanTimesOut ==
    /\ orphan # 0
    /\ idx > orphan
    /\ pc \in PromptPlaces
    /\ orphan' = 0
    /\ pc' = "crashed"
    /\ BodyLeft
    /\ DetectorIdle
    /\ UNCHANGED <<target, idx, browser, scopes, harFile, respFile, hung, started, escaped, modeSince, freshChat, corrVars, catVars, recVars, clickVars, delVars>>

\* main flow: catch (e) { console.error('Fatal error in main flow') }
MainCatch ==
    /\ pc = "mainCatch"
    /\ pc' = "closeBrowser"
    /\ UNCHANGED <<target, idx, browser, scopes, attempts, sseWait, orphan, sseText, finalAnswer, elapsed, det, captured, harFile, respFile, log, hung, failure, started, escaped, modeSince, freshChat, detVars, corrVars, catVars, recVars, clickVars, delVars>>

\* main flow: finally { await browser.close() }
CloseBrowserOk ==
    /\ pc = "closeBrowser"
    /\ browser' = "closed"
    /\ pc' = "done"
    /\ UNCHANGED <<target, idx, scopes, attempts, sseWait, orphan, sseText, finalAnswer, elapsed, det, captured, harFile, respFile, log, hung, failure, started, escaped, modeSince, freshChat, detVars, corrVars, catVars, recVars, clickVars, delVars>>

\* main flow: browser.close() throws, the catch warns
CloseBrowserFails ==
    /\ pc = "closeBrowser"
    /\ browser' = "closeFailed"
    /\ pc' = "done"
    /\ UNCHANGED <<target, idx, scopes, attempts, sseWait, orphan, sseText, finalAnswer, elapsed, det, captured, harFile, respFile, log, hung, failure, started, escaped, modeSince, freshChat, detVars, corrVars, catVars, recVars, clickVars, delVars>>

Next ==
    \/ LoadCatalogOk \/ LoadCatalogFails \/ Launch
    \/ GotoOk \/ GotoFails \/ PageHangs \/ InitComposerAppears \/ InitSelectModel
    \/ LoopNext \/ LoopEnd
    \/ HarStartOk \/ HarStartFails
    \/ EnableWeb \/ EnableWebSearchOk \/ EnableWebSearchFails
    \/ RegisterSse \/ SubmitOk \/ SubmitFails
    \/ SseResolved \/ SseTextFails \/ SseTimesOut
    \/ CallDetector \/ DetPoll \/ DetTimesOut \/ AwaitStability \/ StabilityThrows
    \/ HarStopOk \/ HarStopFails
    \/ InjectOk \/ InjectReadFails \/ InjectWriteFails
    \/ SaveAnswerOk \/ SaveAnswerFails
    \/ NewChatOk \/ NewChatFails \/ FallbackGotoOk \/ FallbackGotoFails
    \/ FallbackComposerAppears \/ KeyboardNewChatOk \/ KeyboardNewChatFails
    \/ OrphanResolves \/ OrphanTimesOut
    \/ MainCatch \/ CloseBrowserOk \/ CloseBrowserFails

Spec == Init /\ [][Next]_vars

\* the runtime takes a step of the program whenever one can be taken
FairSpec == Spec /\ WF_vars(Next)

-----------------------------------------------------------------------------
(* Prompt catalog: csvJobs.map(loadCsvPrompts, savePromptsCatalog) *)

\* a CSV source: the file may be absent, may not parse, holds `rows` data
\* rows, and its header may lack the query column
Sources ==
    [exists : BOOLEAN, parses : BOOLEAN, rows : 0..MaxRows, hasQuery : BOOLEAN]

\* loadCsvPrompts(csvFile): "prompts" when it returns, else the error thrown
loadCsvPrompts(src) ==
    IF ~src.exists THEN "Missing CSV file"
    ELSE IF ~src.parses THEN "Failed to parse CSV"
    ELSE IF src.rows = 0 THEN "CSV has no data rows"
    ELSE IF ~src.hasQuery THEN "CSV does not have a 'query' header column"
    ELSE "prompts"

InitCat ==
    /\ kJobs \in SeqsUpTo(Sources, MaxJobs)
    /\ kAt = 0
    /\ kDirs = {}
    /\ kCatalogs = {}
    /\ kPc = "load"
    /\ InitRunIdle
    /\ InitDetIdle
    /\ InitCorrIdle
    /\ InitRecIdle
    /\ InitClickIdle
    /\ InitDelIdle

\* csvJobs.map: const prompts = loadCsvPrompts(job.file) of the next job
CatLoad ==
    /\ kPc = "load"
    /\ kAt < Len(kJobs)
    /\ kPc' = IF loadCsvPrompts(kJobs[kAt + 1]) = "prompts" THEN "save" ELSE "error"
    /\ UNCHANGED <<kJobs, kAt, kDirs, kCatalogs, runVars, detVars, corrVars, recVars, clickVars, delVars>>

\* savePromptsCatalog(job.outDir, job.file, prompts): ensureDir, three writes
CatSaveOk ==
    /\ kPc = "save"
    /\ kDirs' = kDirs \cup {kAt + 1}
    /\ kCatalogs' = kCatalogs \cup {kAt + 1}
    /\ kAt' = kAt + 1
    /\ kPc' = "load"
    /\ UNCHANGED <<kJobs, runVars, detVars, corrVars, recVars, clickVars, delVars>>

\* savePromptsCatalog throws: mkdirSync failed, or a write after it
CatSaveFails ==
    /\ kPc = "save"
    /\ \E made \in BOOLEAN : kDirs' = IF made THEN kDirs \cup {kAt + 1} ELSE kDirs
    /\ kPc' = "error"
    /\ UNCHANGED <<kJobs, kAt, kCatalogs, runVars, detVars, corrVars, recVars, clickVars, delVars>>

\* every job is loaded: const browser = await puppeteer.launch(...)
CatLaunch ==
    /\ kPc = "load"
    /\ kAt = Len(kJobs)
    /\ kPc' = "launched"
    /\ UNCHANGED <<kJobs, kAt, kDirs, kCatalogs, runVars, detVars, corrVars, recVars, clickVars, delVars>>

NextCat == CatLoad \/ CatSaveOk \/ CatSaveFails \/ CatLaunch

SpecCat == InitCat /\ [][NextCat]_vars

-----------------------------------------------------------------------------
(* Offline Reconstructor: reconstruct_answers.py.  The README names the    *)
(* script (lines 121, 147-151) but its code is not part of the sources;    *)
(* the section follows the contract of spec.md, section 4.4.               *)

\* the longest stored streaming body, in event records
MaxRecords == 4
\* the most reconstructions run over one trace
MaxRuns == 2

\* the incremental text fields a data record may carry
DeltaTexts == {"Hel", "lo"}
\* the text a live run captured from the page
LiveText == "Hi"

\* one event record of the streaming entry's body: its data payload is an
\* incremental text delta, a heartbeat/control marker or a terminal marker
Records ==
    [kind : {"delta"}, text : DeltaTexts]
        \cup [kind : {"control", "terminal"}, text : {""}]

\* one pass over the records in arrival order: control records are skipped,
\* delta texts are appended, the pass stops at the first terminal marker
RECURSIVE ConcatDeltas(_)
ConcatDeltas(recs) ==
    IF recs = <<>> THEN ""
    ELSE LET r == Head(recs) IN
         IF r.kind = "terminal" THEN ""
         ELSE IF r.kind = "control" THEN ConcatDeltas(Tail(recs))
         ELSE r.text \o ConcatDeltas(Tail(recs))

\* a faulty variant: terminal markers are skipped like control records
ReconstructPastTerminal(recs) ==
    ConcatDeltas(SelectSeq(recs, LAMBDA r : r.kind # "terminal"))

\* a faulty variant: the pass resumes from the text the artifact holds
ReconstructResuming(recs) ==
    (IF rArtifact = Placeholder THEN "" ELSE rArtifact) \o ConcatDeltas(recs)

\* the reconstructed text of a trace: a function of the records alone
Reconstruct(recs) == ConcatDeltas(recs)

\* the output replaces an unresolved placeholder in the response artifact
ReplacePlaceholder(body, text) == IF body = Placeholder THEN text ELSE body

InitRec ==
    /\ rTrace \in SeqsUpTo(Records, MaxRecords)
    /\ rArtifact \in {Placeholder, LiveText}
    /\ rText = ""
    /\ rRuns = 0
    /\ InitRunIdle
    /\ InitDetIdle
    /\ InitCorrIdle
    /\ InitCatIdle
    /\ InitClickIdle
    /\ InitDelIdle

\* python reconstruct_answers.py: one trace read, transformed and written
RecRun ==
    /\ rRuns < MaxRuns
    /\ rText' = Reconstruct(rTrace)
    /\ rArtifact' = ReplacePlaceholder(rArtifact, rText')
    /\ rRuns' = rRuns + 1
    /\ UNCHANGED <<rTrace, runVars, detVars, corrVars, catVars, clickVars, delVars>>

\* a later batch run saves the response file of the prompt again
RespRewritten ==
    /\ \E body \in {Placeholder, LiveText} :
          /\ body # rArtifact
          /\ rArtifact' = body
    /\ UNCHANGED <<rTrace, rText, rRuns, runVars, detVars, corrVars, catVars, clickVars, delVars>>

NextRec == RecRun \/ RespRewritten

SpecRec == InitRec /\ [][NextRec]_vars

-----------------------------------------------------------------------------
(* safeClick of the ChatGPT runner (part_001, lines 59-81) *)

\* the largest options.attempts a call is checked with
MaxClickAttempts == 3

\* options = { attempts: 3, ... }: the default
attemptsDefault == 3

\* await sleep(500)
backoffMs == 500

\* The messages of the errors waitForSelector and click throw, as the parts
\* they are made of; <<>> is an error with no message (e.message || '').
ClickErrors ==
    { <<"Protocol error: ", "detached frame">>,
      <<"Node is detached", " from document">>,
      <<"Execution context was destroyed", ", most likely because of a navigation.">>,
      <<"TimeoutError", ": waiting for selector failed">>,
      <<"Waiting for selector failed: ", "10000ms exceeded">>,
      <<"Node is either not clickable or not an Element">>,
      <<>> }

\* a wait-and-click attempt that went through
Clicked == <<"clicked">>

\* a faulty variant: every failure is retried
IsTransientAlways(msg) == TRUE

\* msg.includes('detached frame') || msg.includes('Node is detached') ||
\* msg.includes('Execution context was destroyed') ||
\* msg.includes('TimeoutError')
IsTransient(msg) ==
    \/ includes(msg, "detached frame")
    \/ includes(msg, "Node is detached")
    \/ includes(msg, "Execution context was destroyed")
    \/ includes(msg, "TimeoutError")

\* new Error(`safeClick failed for selector ${selector}`)
SafeClickFailed == <<"safeClick failed for selector ", "button[data-testid='composer-plus-btn']">>

InitClick ==
    /\ sAttempts \in 0..MaxClickAttempts
    /\ sI = 0
    /\ sPc = "loop"
    /\ sLog = <<>>
    /\ sSlept = 0
    /\ sErr = ""
    /\ InitRunIdle
    /\ InitDetIdle
    /\ InitCorrIdle
    /\ InitCatIdle
    /\ InitRecIdle
    /\ InitDelIdle

\* one iteration of for (let i = 0; i < options.attempts; i++): the try
\* with waitForSelector and click, and the catch
safeClickAttempt ==
    /\ sPc = "loop"
    /\ sI < sAttempts
    /\ \E end \in {Clicked} \cup ClickErrors :
          /\ sLog' = Append(sLog, end)
          /\ IF end = Clicked
             THEN /\ sPc' = "returned"
                  /\ UNCHANGED <<sI, sSlept, sErr>>
             ELSE IF IsTransient(end)
             THEN /\ sSlept' = sSlept + backoffMs
                  /\ sI' = sI + 1
                  /\ UNCHANGED <<sPc, sErr>>
             ELSE /\ sPc' = "threw"
                  /\ sErr' = end
                  /\ UNCHANGED <<sI, sSlept>>
    /\ UNCHANGED <<sAttempts, runVars, detVars, corrVars, catVars, recVars, delVars>>

\* the loop condition fails: throw new Error('safeClick failed ...')
safeClickGivesUp ==
    /\ sPc = "loop"
    /\ ~(sI < sAttempts)
    /\ sPc' = "threw"
    /\ sErr' = SafeClickFailed
    /\ UNCHANGED <<sAttempts, sI, sLog, sSlept, runVars, detVars, corrVars, catVars, recVars, delVars>>

NextClick == safeClickAttempt \/ safeClickGivesUp

SpecClick == InitClick /\ [][NextClick]_vars

-----------------------------------------------------------------------------
(* The chat-deletion loop of LLM_search_automation/GPT/delete_chats.js *)

\* chat rows in the sidebar when the loop begins, at most
MaxChats == 3
\* iterations of while (true) followed
MaxIter == 4

\* How the page behaves during one call of deleteOnce when a chat row is
\* listed: the row has no bounding box, also after scrollIntoView; the
\* options button does not show; a node is detached under the click; the
\* menu or the dialog does not open in time; the Delete item or the confirm
\* button is not among the elements found, so nothing is clicked; or every
\* click lands and the chat is deleted.
PageBehaviours ==
    {"noBox", "optionsHidden", "detached", "menuTimeout", "nothingClicked", "deleted"}

\* const deleteOnce = async () => { ... }: what the call returns or throws
\* and the chat rows left
deleteOnce(chats, how) ==
    IF chats = 0 THEN [ret |-> "false", chats |-> chats, msg |-> <<>>]
    ELSE CASE how = "noBox" ->
                [ret |-> "false", chats |-> chats, msg |-> <<>>]
           [] how = "optionsHidden" ->
                [ret |-> "throw", chats |-> chats, msg |-> <<"options-not-visible">>]
           [] how = "detached" ->
                [ret |-> "throw", chats |-> chats,
                 msg |-> <<"Node is ", "detached", " from document">>]
           [] how = "menuTimeout" ->
                [ret |-> "throw", chats |-> chats,
                 msg |-> <<"Waiting for selector failed: ", "5000ms exceeded">>]
           [] how = "nothingClicked" ->
                [ret |-> "true", chats |-> chats, msg |-> <<>>]
           [] OTHER ->
                [ret |-> "true", chats |-> chats - 1, msg |-> <<>>]

\* String(e.message || e).includes('detached') ||
\* String(e.message || e).includes('options-not-visible')
IsRerender(msg) == includes(msg, "detached") \/ includes(msg, "options-not-visible")

InitDel ==
    /\ lChats \in 1..MaxChats
    /\ lPc = "loop"
    /\ lIter = 0
    /\ lReports = 0
    /\ lRemoved = 0
    /\ lSkips = 0
    /\ InitRunIdle
    /\ InitDetIdle
    /\ InitCorrIdle
    /\ InitCatIdle
    /\ InitRecIdle
    /\ InitClickIdle

\* one iteration of while (true) up to the end of the outer try, or to the
\* catch that warns, or into the catch that tries again
DelIteration ==
    /\ lPc = "loop"
    /\ lIter < MaxIter
    /\ lIter' = lIter + 1
    /\ \E how \in PageBehaviours :
          LET r == deleteOnce(lChats, how) IN
          /\ lChats' = r.chats
          /\ lRemoved' = lRemoved + (lChats - r.chats)
          /\ lReports' = IF r.ret = "true" THEN lReports + 1 ELSE lReports
          /\ lSkips' = IF r.ret = "throw" /\ ~IsRerender(r.msg) THEN lSkips + 1 ELSE lSkips
          /\ lPc' = IF r.ret = "false" THEN "done"
                    ELSE IF r.ret = "throw" /\ IsRerender(r.msg) THEN "retry"
                    ELSE "loop"
    /\ UNCHANGED <<runVars, detVars, corrVars, catVars, recVars, clickVars>>

\* the catch: sleep(150), deleteOnce once more, its own catch warns
DelRetry ==
    /\ lPc = "retry"
    /\ \E how \in PageBehaviours :
          LET r == deleteOnce(lChats, how) IN
          /\ lChats' = r.chats
          /\ lRemoved' = lRemoved + (lChats - r.chats)
          /\ lReports' = IF r.ret = "true" THEN lReports + 1 ELSE lReports
          /\ lSkips' = IF r.ret = "throw" THEN lSkips + 1 ELSE lSkips
          /\ lPc' = IF r.ret = "false" THEN "done" ELSE "loop"
    /\ UNCHANGED <<lIter, runVars, detVars, corrVars, catVars, recVars, clickVars>>

\* after the loop: console.log('Done'), browser.close()
DelClose ==
    /\ lPc = "done"
    /\ lPc' = "closed"
    /\ UNCHANGED <<lChats, lIter, lReports, lRemoved, lSkips, runVars, detVars, corrVars, catVars, recVars, clickVars>>

NextDel == DelIteration \/ DelRetry \/ DelClose

SpecDel == InitDel /\ [][NextDel]_vars

-----------------------------------------------------------------------------
(* Claims about the Completion Detector, checked under SpecDet *)

DetReturned == dOut.via \in {"stable", "timeout"}

NumPolls == Len(dOut.polls)

\* the first read of the run of equal reads that ends at the last read
RunStart ==
    CHOOSE k \in 1..NumPolls :
        /\ \A j \in k..NumPolls : dOut.polls[j].cur = dOut.polls[NumPolls].cur
        /\ k = 1 \/ dOut.polls[k - 1].cur # dOut.polls[NumPolls].cur

\* when the text last changed, as the reads show it: the first read of the
\* final run, or the start of the call when every read returned the initial
\* snapshot ''
LastChangeAt ==
    IF RunStart = 1 /\ dOut.polls[1].cur = ""
    THEN 0
    ELSE dOut.polls[RunStart].t

\* C4: the detector returns only (a) at a read that finds the text equal to
\* every read since its last change, at least stabilityMs after that change
\* (after the start of the call when no read ever differed from the initial
\* snapshot), returning that text, or (b) once maxTimeout has elapsed,
\* returning the last text read.
C4_StableOrTimeout ==
    DetReturned =>
        /\ dOut.text = (IF NumPolls = 0 THEN "" ELSE dOut.polls[NumPolls].cur)
        /\ dOut.via = "stable" =>
              /\ NumPolls >= 1
              /\ dOut.at = dOut.polls[NumPolls].t
              /\ dOut.at - LastChangeAt >= dStab
        /\ dOut.via = "timeout" => dOut.at >= dMax

\* a call that returned "b" as stable after the text had changed from "a"
C4_Witness ==
    /\ dOut.via = "stable"
    /\ dOut.text = "b"
    /\ NumPolls >= 4
    /\ dOut.polls[1].cur = "a"
    /\ dOut.at < dMax

\* the stability-policy example: reads a,a,a,b,b,b, a window of 2 ticks, one
\* tick per poll, every read on time
C5_Example ==
    /\ dOut.via \notin {"none", "polling"}
    /\ dSrc.prefix = StabilityPattern
    /\ dStab = 2
    /\ dSlow = 0
    /\ dFailAt = 0

\* C5 as stated: the example resolves to "b".
C5_ResolvesToB == C5_Example => dOut.text = "b"

\* C5 amended: the example resolves to "a", at the third read, when "a" has
\* been unchanged for 2 ticks; the reads of "b" are never made.
C5_ResolvesToA ==
    C5_Example =>
        /\ dOut.via = "stable"
        /\ dOut.text = "a"
        /\ dOut.at = 2
        /\ NumPolls = 3

C5_Witness == C5_Example /\ dOut.via = "stable" /\ NumPolls = 3

\* C6: when every read since polling began returned the empty text, the
\* detector does not return before maxTimeout has elapsed.
C6_EmptyOnlyAtTimeout ==
    (DetReturned /\ \A j \in 1..NumPolls : dOut.polls[j].cur = "")
        => dOut.at >= dMax

\* the snapshot a read is compared with: the one the read before it left,
\* or the initial '' for the first read
SnapshotBefore(j) == IF j = 1 THEN "" ELSE dOut.polls[j - 1].last

\* C24: every read whose text differs from the snapshot it is compared
\* with, a change from or to the empty text included, becomes the snapshot
\* and starts the stability window anew at the time of that read; the call
\* does not return as stable on such a read, and when it later returns as
\* stable a full window has passed since every such read.
C24_ChangeRestartsWindow ==
    \A j \in 1..NumPolls :
        dOut.polls[j].cur # SnapshotBefore(j) =>
            /\ dOut.polls[j].last = dOut.polls[j].cur
            /\ dOut.polls[j].since = dOut.polls[j].t
            /\ dOut.via = "stable" =>
                  /\ j < NumPolls
                  /\ dOut.at - dOut.polls[j].t >= dStab

\* the text went from "a" to empty and back to "a", each change restarting
\* the window, and the call then returned "a" as stable
C24_Witness ==
    /\ dOut.via = "stable"
    /\ dOut.text = "a"
    /\ NumPolls >= 4
    /\ dOut.polls[1].cur = "a"
    /\ dOut.polls[2].cur = ""
    /\ dOut.polls[2].since = dOut.polls[2].t
    /\ dOut.polls[3].cur = "a"
    /\ dOut.polls[3].since = dOut.polls[3].t

-----------------------------------------------------------------------------
(* Claims about the Correlator, checked under SpecCorr *)

\* the UTF-8 length of a string of UTF-16 code units, by counting: units
\* below U+0080, units below U+0800, surrogate pairs, and the rest
Utf8Length(s) ==
    LET units == 1..Len(s)
        one   == Cardinality({i \in units : s[i] < 128})
        two   == Cardinality({i \in units : s[i] >= 128 /\ s[i] < 2048})
        pairs == Cardinality({i \in units : /\ i < Len(s)
                                          /\ IsHighSurrogate(s[i])
                                          /\ IsLowSurrogate(s[i + 1])})
    IN  one + 2 * two + 4 * pairs + 3 * (Len(s) - one - two - 2 * pairs)

StreamingIn(file) ==
    {i \in 1..Len(file.entries) : file.entries[i].mimeType = EventStream}

\* the trace has exactly one entry typed text/event-stream, its body empty
C7_OneStreamingEntry ==
    /\ Cardinality(StreamingIn(cCaptured)) = 1
    /\ \A i \in StreamingIn(cCaptured) : cCaptured.entries[i].text = <<>>

\* C7: after the correlation step on a trace with exactly one entry typed
\* text/event-stream (empty body), that entry's body is the captured stream
\* text and its size the UTF-8 byte length of that text; every other entry
\* is as captured, in the same position.
C7_Correlation ==
    (cPc = "done" /\ C7_OneStreamingEntry) =>
        /\ Len(cHar.entries) = Len(cCaptured.entries)
        /\ \A i \in 1..Len(cCaptured.entries) :
              IF i \in StreamingIn(cCaptured)
              THEN /\ cHar.entries[i].text = cSse
                   /\ cHar.entries[i].size = Utf8Length(cSse)
                   /\ cHar.entries[i].mimeType = EventStream
              ELSE cHar.entries[i] = cCaptured.entries[i]

\* a correlated trace of three entries, the streaming one in the middle,
\* and a stream text with characters of more than one byte
C7_Witness ==
    /\ cPc = "done"
    /\ C7_OneStreamingEntry
    /\ StreamingIn(cCaptured) = {2}
    /\ Len(cCaptured.entries) = 3
    /\ cSse = <<8364, 55357, 56832>>
    /\ cHar.entries[2].size = 7

\* the first entry of the captured trace typed text/event-stream
FirstStreaming ==
    CHOOSE i \in StreamingIn(cCaptured) : \A j \in StreamingIn(cCaptured) : i <= j

\* C23: after the correlation step on a trace with more than one entry typed
\* text/event-stream, the first of them in trace order carries the captured
\* stream text; every later one has the body text and the size it was
\* captured with.
C23_OnlyFirstRewritten ==
    (cPc = "done" /\ Cardinality(StreamingIn(cCaptured)) >= 2) =>
        /\ cHar.entries[FirstStreaming].text = cSse
        /\ \A i \in StreamingIn(cCaptured) :
              i # FirstStreaming =>
                  /\ cHar.entries[i].text = cCaptured.entries[i].text
                  /\ cHar.entries[i].size = cCaptured.entries[i].size

\* two streaming entries after another entry, the second with a body the
\* capture kept, and a stream text that differs from that body
C23_Witness ==
    /\ cPc = "done"
    /\ StreamingIn(cCaptured) = {2, 3}
    /\ cCaptured.entries[3].text = <<120>>
    /\ cSse = <<97, 233>>
    /\ cHar.entries[2].text = cSse
    /\ cHar.entries[3].text = <<120>>

\* C27: every exchange of the trace whose content type the Stream Recorder
\* takes for the streaming exchange is one the Correlator takes for a
\* streaming entry, so that when stream text was captured and the trace has
\* such an exchange, some entry carries that text after the correlation.
C27_SameIdentification ==
    cPc = "done" =>
        /\ \A i \in 1..Len(cCaptured.entries) :
              isSSE(cCaptured.entries[i].mimeType)
                  => IsStreamingEntry(cCaptured.entries[i])
        /\ (/\ cSse # <<>>
            /\ \E i \in 1..Len(cCaptured.entries) : isSSE(cCaptured.entries[i].mimeType))
              => \E i \in 1..Len(cHar.entries) : cHar.entries[i].text = cSse

-----------------------------------------------------------------------------
(* Claims about the batch runner, checked under Spec and FairSpec *)

\* the run is over: normally, on a catalog error, or with the process ended
RunOver == pc \in {"done", "catalogError", "crashed"}

\* C1: a failure while processing a prompt never aborts the batch: once the
\* first prompt has been started, the run ends only after every prompt of
\* the catalog has been started.
C1_BatchNeverAborts ==
    (RunOver /\ started # {}) => started = 1..NPrompts

C3_OneScope ==
    /\ Cardinality(scopes) <= 1
    /\ pc = "harStart" => scopes = {}

\* C8: after the correlation step on a trace with no entry typed
\* text/event-stream, a warning about the correlation has been logged and
\* the entries on disk are the captured ones.
C8_MissWarns ==
    (/\ pc = "saveAnswer"
     /\ Exists(captured)
     /\ StreamingIn(captured) = {})
        => /\ Msg("inject", "warn") \in log
           /\ harFile[idx].entries = captured.entries

\* C9: every wait of a run carries a finite timeout: as long as the run is
\* not over some step of it can be taken, also when the page hangs.
C9_EveryWaitEnds == RunOver \/ ENABLED Next

\* C9 as a liveness property, for FairSpec: the run eventually ends.
C9_RunEnds == <>RunOver

Degraded == sseWait = "rejected" \/ det.via = "timeout"

\* C11: a stream wait that times out leads on to the stability detection
\* without an error being caught, and a prompt degraded by a stream or
\* stability timeout is not tried again, has its response file written with
\* the text at hand when the write succeeds, and never leaves the loop: the
\* batch goes on with the next prompt.
C11_DegradedSuccess ==
    [][/\ (sseWait = "pending" /\ sseWait' = "rejected")
            => (pc' = "stability" /\ failure' = "none")
       /\ (Degraded /\ failure = "none" /\ pc \in PromptPlaces)
            => /\ pc' # "mainCatch"
               /\ attempts' <= 1
               /\ (pc = "saveAnswer" /\ Exists(respFile'[idx]))
                    => respFile'[idx] = ResponseFile(target, idx, finalAnswer)
      ]_vars

\* C12: the step that follows the new-conversation attempt is the next
\* prompt or, when the attempt failed, the fallback reload; a prompt is
\* submitted only with the mode selection re-applied since the reset; the
\* browser stays open while prompts are processed.
C12_ResetThenFallback ==
    [][/\ (pc = "reset" /\ pc' # "reset") => pc' \in {"loopHead", "fallbackGoto"}
       /\ pc = "submit" => modeSince
       /\ pc \in PromptPlaces \cup {"loopHead"} => browser = "open"
      ]_vars

\* the places after the response file of the prompt was written or skipped
AfterSave == {"reset", "fallbackGoto", "fallbackWait"}

\* C14: when the detector returned a non-empty text for the prompt and the
\* response file was written, the file is the prompt's own and its body is
\* that text, not the placeholder.
C14_AnswerPersisted ==
    (/\ pc \in AfterSave
     /\ det.via \in {"stable", "timeout"}
     /\ det.text # ""
     /\ Exists(respFile[idx]))
        => /\ respFile[idx].body = det.text
           /\ respFile[idx].body # Placeholder
           /\ respFile[idx].prompt = PromptText(target, idx)

\* the second prompt's answer is saved and differs from the first prompt's
C14_Witness ==
    /\ pc = "reset"
    /\ idx = 2
    /\ det.text # ""
    /\ Exists(respFile[1])
    /\ Exists(respFile[2])
    /\ respFile[1].body \notin {Placeholder, respFile[2].body}
    /\ respFile[2].body = det.text

\* C15: once the browser is launched, a run that is over has gone through
\* browser.close() (a close that itself throws is logged and counts as the
\* teardown having been made): no run ends with the browser left open.
C15_BrowserClosed ==
    (RunOver /\ browser # "none") => browser \in {"closed", "closeFailed"}

\* the processing of prompt i, once started, has come to its end
ProcessingOver(i) ==
    \/ i < idx
    \/ i = idx /\ pc \in AfterSave \cup {"loopHead", "mainCatch", "closeBrowser", "done"}

\* C16: every prompt whose processing was started and is over has its
\* response file, written under its own index, also when the processing
\* threw; the body is the placeholder exactly when no answer text was
\* captured, and the captured text otherwise.
C16_OneResponsePerPrompt ==
    \A i \in started :
        ProcessingOver(i) =>
            /\ Exists(respFile[i])
            /\ respFile[i].prompt = PromptText(target, i)
            /\ (i = idx /\ pc \in AfterSave) =>
                  respFile[i].body = IF finalAnswer = "" THEN Placeholder ELSE finalAnswer

\* the artifact steps of the finally block in order, with the place after
\* each and the messages of success and of failure
ArtifactSteps ==
    << [at |-> "harStop", then |-> "inject",
        ok |-> Msg("harStop", "log"), bad |-> Msg("harStop", "warn")],
       [at |-> "inject", then |-> "saveAnswer",
        ok |-> Msg("inject", "log"), bad |-> Msg("inject", "error")],
       [at |-> "saveAnswer", then |-> "reset",
        ok |-> Msg("save", "log"), bad |-> Msg("save", "warn")] >>

C20_ModeBeforeSubmit == pc \in {"submit", "awaitSSE"} => modeSince

\* Claude's second prompt is submitted, one session reset after the first
C20_Witness ==
    /\ target = "claude"
    /\ idx = 2
    /\ pc = "awaitSSE"
    /\ sseWait = "pending"
    /\ modeSince

\* the k-th artifact step of the finally block has been attempted for the
\* prompt in hand: its message of success or of failure is on the console
Attempted(k) == {ArtifactSteps[k].ok, ArtifactSteps[k].bad} \cap log # {}

C22_FreshConversation ==
    [][(pc = "submit" /\ pc' = "awaitSSE" /\ idx > 1) => freshChat]_vars

\* C25: when a prompt is submitted, and from then until its stream wait is
\* over, the capture of that prompt is open and its stream wait has been
\* registered and is pending: a streaming response that begins at any time
\* after the submission finds both in place.
C25_ArmedBeforeSubmit ==
    /\ pc \in {"submit", "awaitSSE"} => (idx \in scopes /\ sseWait = "pending")
    /\ sseWait \in {"resolved", "rejected"} => idx \in scopes \/ Attempted(1)

\* prompt 2 has been submitted and its stream has not yet arrived
C25_Witness ==
    /\ pc = "awaitSSE"
    /\ idx = 2
    /\ 2 \in scopes
    /\ sseWait = "pending"
    /\ sseText = <<>>

\* C26: a stream wait registered for a prompt is over, or harmlessly gone,
\* when the processing of that prompt ends: none is pending while a later
\* prompt is processed, and none ends the run by rejecting unhandled.
C26_NoWaitOutlivesPrompt ==
    /\ orphan # 0 => (orphan = idx /\ pc \in PromptPlaces)
    /\ pc # "crashed"

\* C28: when the stream wait of a prompt failed or timed out, so that no
\* stream text was captured, the correlation step loses nothing the capture
\* recorded: once it is over, every entry of the trace on disk has a body
\* at least as long as the body the capture wrote for it.
C28_NoCapturedDataLost ==
    (/\ pc = "saveAnswer"
     /\ Msg("sse", "warn") \in log
     /\ sseText = <<>>
     /\ Exists(captured)
     /\ Exists(harFile[idx])) =>
        \A i \in 1..Len(captured.entries) :
            Len(harFile[idx].entries[i].text) >= Len(captured.entries[i].text)

-----------------------------------------------------------------------------
(* Claims about the prompt catalog, checked under SpecCat *)

\* a source that is missing or lacks the query column
BadSource(src) == ~src.exists \/ ~src.hasQuery

\* C13: with a bad source among the configured jobs the browser is never
\* launched, and when the run has failed at the bad source no output
\* directory and no catalog file exists for any job.
C13_NoOutputOnCatalogError ==
    \A j \in DOMAIN kJobs :
        BadSource(kJobs[j]) =>
            /\ kPc # "launched"
            /\ (kPc = "error" /\ kAt + 1 = j) => (kDirs = {} /\ kCatalogs = {})

-----------------------------------------------------------------------------
(* Claims about the Offline Reconstructor, checked under SpecRec *)

\* the position of the first terminal marker, or one past the end
FirstTerminal(recs) ==
    LET ts == {i \in DOMAIN recs : recs[i].kind = "terminal"}
    IN  IF ts = {} THEN Len(recs) + 1
        ELSE CHOOSE i \in ts : \A j \in ts : i <= j

\* the delta texts of records 1..n, joined in arrival order
RECURSIVE TextBefore(_, _)
TextBefore(recs, n) ==
    IF n = 0 THEN ""
    ELSE TextBefore(recs, n - 1)
             \o (IF recs[n].kind = "delta" THEN recs[n].text ELSE "")

HelloTrace ==
    << [kind |-> "delta", text |-> "Hel"],
       [kind |-> "delta", text |-> "lo"],
       [kind |-> "terminal", text |-> ""] >>

\* C17: once a reconstruction has run, its text is the delta texts of the
\* records before the first terminal marker (of all records if there is
\* none), joined in arrival order with control records left out; the
\* deltas "Hel", "lo" and a terminal marker give exactly "Hello".
C17_ReconstructedText ==
    rRuns >= 1 =>
        /\ rText = TextBefore(rTrace, FirstTerminal(rTrace) - 1)
        /\ rTrace = HelloTrace => rText = "Hello"

C17_Witness == rRuns >= 1 /\ rTrace = HelloTrace /\ rText = "Hello"

-----------------------------------------------------------------------------
(* Claims about safeClick, checked under SpecClick *)

\* the words that mark a failure as one to retry
TransientNeedles ==
    {"detached frame", "Node is detached", "Execution context was destroyed",
     "TimeoutError"}

Retried(end) ==
    end # Clicked /\ \E n \in TransientNeedles, i \in DOMAIN end : end[i] = n

-----------------------------------------------------------------------------
(* Claims about the chat-deletion loop, checked under SpecDel *)

\* C30: the loop ends only when no chat row is left, and every deletion it
\* reports is one chat deleted.
C30_DeletionLoop ==
    /\ lPc \in {"done", "closed"} => lChats = 0
    /\ lReports = lRemoved

=============================================================================
